---- MODULE Spec2Model ----
(***************************************************************************)
(* use-charts (src/index.ts): the chart-instance lifecycle of useCharts(). *)
(*                                                                         *)
(* One scope (one call of useCharts) owns a ResizeObserver, the list of    *)
(* AbortControllers and the list of watchers.  createChartEl and the setup *)
(* of a createChartComp component each call createChart, which owns a      *)
(* binding list `charts`, an init-callback list and the attach callback    *)
(* initEl.  The host framework (Vue) and the platform are the environment: *)
(* they attach and detach elements, call the ref callback, run nextTick    *)
(* callbacks in FIFO order, run the triggered watch() jobs of a settling   *)
(* cycle in the order they were triggered and the post-render effects      *)
(* after them, deliver resize notifications and run the onUnmounted hook.  *)
(* Every interleaving of these steps is allowed.                           *)
(*                                                                         *)
(* The rendering engine is opaque: init(el) hands out a new instance       *)
(* handle on every call; setOption and resize calls are recorded.          *)
(***************************************************************************)
EXTENDS Integers, Sequences, FiniteSets, TLC

\* Bounds of the model.
MaxElems == 2
MaxFactories == 1
MaxInst == 2

Elems == 1..MaxElems
Factories == 1..MaxFactories
\* The factory whose placeholder element e is rendered from.
owner(e) == ((e - 1) % MaxFactories) + 1
Insts == 1..MaxInst
\* Values of the reactive payload source and of the reactive options source.
DataVals == {"d0", "d1"}
OptVals == {"o0", "o1"}
\* Init callbacks a caller of createChart's onInit may register besides the binder's.
ExtraFns == {"g1", "g2"}

VARIABLES
    form,       \* form[f]: "none" (not created), "el" (createChartEl), "comp" (createChartComp setup)
    hasOpts,    \* hasOpts[f]: the options source was supplied (opts argument / opts prop)
    charts,     \* charts[f]: the internal binding list (the `let charts` variable)
    chartsRet,  \* chartsRet[f]: contents of the array object returned as `charts` by createChart
    aliased,    \* aliased[f]: the internal variable still refers to the returned array object
    initList,   \* initList[f]: the registered init callbacks, in order
    regs,       \* regs[f][fn]: "none", "on" (onInit(fn) was called), "off" (its unregister function was called)
    AbortSignals, \* the scope's AbortController list (one controller per factory, by factory id)
    aborted,    \* aborted[f]: the controller of factory f has been aborted
    Watchs,     \* the scope's list of watcher handles <<f, "data">> / <<f, "opts">>
    watching,   \* the watcher and effect handles that are active in the framework
    tornDown,   \* the onUnmounted callback has run
    observed,   \* the elements the ResizeObserver observes
    resizeFn,   \* resizeFn[e]: the instance captured by el.__resize (0: property not set)
    attached,   \* attached[e]: el.parentElement is non-null
    pending,    \* the nextTick callbacks not yet run, FIFO, each <<f, e>>
    preQ,       \* the framework's queue of triggered watch() jobs, in trigger order
    postQ,      \* the framework's queue of triggered post-render effects, in trigger order
    dirty,      \* the sources changed since the last flush, in order of mutation
    data,       \* current value of the payload source
    opts,       \* current value of the options source
    nInst,      \* number of engine instances created so far
    instEl,     \* instEl[i]: the element instance i was created on (0: not created)
    applied,    \* applied[i]: the options last applied to instance i
    calls,      \* the engine calls made by the last step, in order
    tfCalls,    \* the transform invocations made by the last step, in order
    initLog,    \* the init-callback invocations made by the last step, in order
    lastAct     \* the last step taken

vars == <<form, hasOpts, charts, chartsRet, aliased, initList, regs, AbortSignals, aborted,
          Watchs, watching, tornDown, observed, resizeFn, attached, pending,
          preQ, postQ, dirty, data, opts, nInst, instEl, applied, calls, tfCalls,
          initLog, lastAct>>

----------------------------------------------------------------------------
\* Option values handed to the engine.

NoOption == [kind |-> "none", val |-> "-", seen |-> <<>>]
\* code[0]: the template's baseline options.
Baseline == [kind |-> "base", val |-> "-", seen |-> <<>>]
\* code[1](payload, charts): the template's transform applied to a payload and a list.
Transform(d, lst) == [kind |-> "tf", val |-> d, seen |-> lst]
\* toValue(opts): the directly supplied options.
Direct(o) == [kind |-> "opt", val |-> o, seen |-> <<>>]

Call(op, i, arg) == [op |-> op, inst |-> i, arg |-> arg]
\* The record of a step: its kind and element; for a flush also the jobs that ran,
\* the sources that had changed and the binding lists it started from.
Act(k, e) == [kind |-> k, e |-> e, jobs |-> <<>>, dirty |-> <<>>, before |-> <<>>]

InSeq(x, s) == \E k \in 1..Len(s) : s[k] = x
\* charts.some(({ el: _el }) => _el === el).
Somewhere(e, lst) == \E k \in 1..Len(lst) : lst[k].el = e

\* The part of the state that the factory operations read and write.
World == [charts |-> charts, chartsRet |-> chartsRet, aliased |-> aliased,
          applied |-> applied, calls |-> <<>>, tfCalls |-> <<>>, inits |-> <<>>]

----------------------------------------------------------------------------
\* createChart's operations (src/index.ts 64-125), as functions on the world.

\* Variant of removeInvalidChart that keeps the bindings of detached elements.
removeInvalidChartKeepAll(w, f) ==
    [w EXCEPT !.aliased[f] = FALSE]

\* charts = charts.filter(({ el }) => el.parentElement): a new array is assigned.
removeInvalidChart(w, f) ==
    [w EXCEPT !.charts[f] = SelectSeq(@, LAMBDA b : attached[b.el]),
              !.aliased[f] = FALSE]

\* chart.setOption(o) on one instance.
chartSetOption(w, i, o) ==
    [w EXCEPT !.applied[i] = o,
              !.calls = Append(@, Call("setOption", i, o))]

RECURSIVE forEachSetOptionBackwards(_, _, _)
\* Variant of forEachSetOption that walks the list from its end.
forEachSetOptionBackwards(w, lst, o) ==
    IF lst = <<>> THEN w
    ELSE forEachSetOptionBackwards(chartSetOption(w, lst[Len(lst)].chart, o),
                                   SubSeq(lst, 1, Len(lst) - 1), o)

RECURSIVE forEachSetOption(_, _, _)
\* charts.forEach(({ chart }) => chart.setOption(opts)), in list order.
forEachSetOption(w, lst, o) ==
    IF lst = <<>> THEN w
    ELSE forEachSetOption(chartSetOption(w, Head(lst).chart, o), Tail(lst), o)

\* setOption(opts): purge, then apply to every remaining binding.
setOption(w, f, o) ==
    LET w1 == removeInvalidChart(w, f)
    IN  forEachSetOption(w1, w1.charts[f], o)

\* charts.push({ el, chart }): the array the internal variable refers to grows.
pushChart(w, f, b) ==
    [w EXCEPT !.charts[f] = Append(@, b),
              !.chartsRet[f] = IF w.aliased[f] THEN Append(@, b) ELSE @]

\* code[1](payload, charts) as the binders call it: `charts` is the returned array.
callTransform(w, f, d) ==
    [w EXCEPT !.tfCalls = Append(@, [f |-> f, arg |-> w.chartsRet[f],
                                     internal |-> w.charts[f]])]

\* The init callback createChartEl registers (lines 129-132).
elOnInit(w, f, i) ==
    LET w1 == chartSetOption(callTransform(w, f, data), i, Transform(data, w.chartsRet[f]))
    IN  IF hasOpts[f] THEN chartSetOption(w1, i, Direct(opts)) ELSE w1

\* The init callback the component's setup registers (lines 159-162).
compOnInit(w, f, i) ==
    LET w1 == chartSetOption(callTransform(w, f, data), i, Transform(data, w.chartsRet[f]))
    IN  IF hasOpts[f] THEN chartSetOption(w1, i, Direct(opts)) ELSE w1

\* fn(chart, el) for one registered callback: the invocation is recorded with the
\* options the instance holds when it starts; a binder's callback then applies its
\* options, any other callback is opaque.
callInit(w, f, i, e, fn) ==
    LET w1 == [w EXCEPT !.inits = Append(@, [fn |-> fn, inst |-> i, el |-> e,
                                             prior |-> w.applied[i]])]
    IN  IF fn = "el" THEN elOnInit(w1, f, i)
        ELSE IF fn = "comp" THEN compOnInit(w1, f, i)
        ELSE w1

RECURSIVE forEachInit(_, _, _, _, _)
\* initList.forEach((fn) => fn(chart, el)).
forEachInit(w, f, i, e, fns) ==
    IF fns = <<>> THEN w
    ELSE forEachInit(callInit(w, f, i, e, Head(fns)), f, i, e, Tail(fns))

\* Variant of deferredInit that applies the baseline after the init callbacks.
deferredInitBaselineLast(w, f, e, i) ==
    LET w1 == removeInvalidChart(w, f)
        w2 == [w1 EXCEPT !.calls = Append(@, Call("init", i, NoOption))]
        w3 == pushChart(w2, f, [el |-> e, chart |-> i])
        w4 == forEachInit(w3, f, i, e, initList[f])
    IN  chartSetOption(w4, i, Baseline)

\* The nextTick callback of initEl (lines 104-115) for element e and new instance i.
deferredInit(w, f, e, i) ==
    LET w1 == removeInvalidChart(w, f)
        w2 == [w1 EXCEPT !.calls = Append(@, Call("init", i, NoOption))]
        w3 == pushChart(w2, f, [el |-> e, chart |-> i])
        w4 == chartSetOption(w3, i, Baseline)
    IN  forEachInit(w4, f, i, e, initList[f])

\* The payload watcher's callback (lines 133-135).
dataWatcher(w, f) ==
    setOption(callTransform(w, f, data), f, Transform(data, w.chartsRet[f]))

\* The options watcher's callback (lines 136-138).
optsWatcher(w, f) == setOption(w, f, Direct(opts))

\* The component's post-render effect (lines 163-166).
postEffect(w, f) ==
    LET w1 == setOption(callTransform(w, f, data), f, Transform(data, w.chartsRet[f]))
    IN  IF hasOpts[f] THEN setOption(w1, f, Direct(opts)) ELSE w1

\* One job of the framework's queues; a stopped watcher's job does nothing.
runJob(w, j) ==
    IF j \notin watching THEN w
    ELSE IF j[2] = "data" THEN dataWatcher(w, j[1])
    ELSE IF j[2] = "opts" THEN optsWatcher(w, j[1])
    ELSE postEffect(w, j[1])

RECURSIVE runJobs(_, _)
runJobs(w, js) == IF js = <<>> THEN w ELSE runJobs(runJob(w, Head(js)), Tail(js))

----------------------------------------------------------------------------
\* Frame helpers.

Commit(w) ==
    /\ charts' = w.charts
    /\ chartsRet' = w.chartsRet
    /\ aliased' = w.aliased
    /\ applied' = w.applied
    /\ calls' = w.calls
    /\ tfCalls' = w.tfCalls
    /\ initLog' = w.inits

NoEngine ==
    /\ UNCHANGED <<charts, chartsRet, aliased, applied>>
    /\ calls' = <<>>
    /\ tfCalls' = <<>>
    /\ initLog' = <<>>

\* The jobs a change of source `src` triggers: the active handles on it that are
\* not queued yet, in creation order.
RECURSIVE Triggered(_, _, _)
Triggered(hs, q, kinds) ==
    IF hs = <<>> THEN <<>>
    ELSE LET h == Head(hs)
             rest == Triggered(Tail(hs), q, kinds)
         IN  IF h \in watching /\ h[2] \in kinds /\ ~InSeq(h, q) THEN <<h>> \o rest ELSE rest

\* The post-render effects of the component factories, in creation order.
RECURSIVE Effects(_)
Effects(fs) ==
    IF fs = <<>> THEN <<>>
    ELSE (IF form[Head(fs)] = "comp"
          THEN << <<Head(fs), "effect">> >> ELSE <<>>) \o Effects(Tail(fs))

\* The sources changed in the settling cycle that is about to run (none is about
\* to run while no job is queued).
Mark(src, queued) ==
    IF queued = <<>> THEN <<>>
    ELSE IF InSeq(src, dirty) THEN dirty ELSE Append(dirty, src)

----------------------------------------------------------------------------
Init ==
    /\ form = [f \in Factories |-> "none"]
    /\ hasOpts = [f \in Factories |-> FALSE]
    /\ charts = [f \in Factories |-> <<>>]
    /\ chartsRet = [f \in Factories |-> <<>>]
    /\ aliased = [f \in Factories |-> TRUE]
    /\ initList = [f \in Factories |-> <<>>]
    /\ regs = [f \in Factories |-> [fn \in ExtraFns |-> "none"]]
    /\ AbortSignals = <<>>
    /\ aborted = [f \in Factories |-> FALSE]
    /\ Watchs = <<>>
    /\ watching = {}
    /\ tornDown = FALSE
    /\ observed = {}
    /\ resizeFn = [e \in Elems |-> 0]
    /\ attached = [e \in Elems |-> FALSE]
    /\ pending = <<>>
    /\ preQ = <<>>
    /\ postQ = <<>>
    /\ dirty = <<>>
    /\ data = "d0"
    /\ opts = "o0"
    /\ nInst = 0
    /\ instEl = [i \in Insts |-> 0]
    /\ applied = [i \in Insts |-> NoOption]
    /\ calls = <<>>
    /\ tfCalls = <<>>
    /\ initLog = <<>>
    /\ lastAct = Act("init", 0)

\* createChart(opts) (lines 64-67, 95): a new controller is pushed; the lists are empty.
createChart(f) ==
    /\ form[f] = "none"
    /\ f = Len(AbortSignals) + 1
    /\ AbortSignals' = Append(AbortSignals, f)

\* createChartEl(code, data, opts?) (lines 127-141).
createChartEl(f, withOpts) ==
    /\ createChart(f)
    /\ form' = [form EXCEPT ![f] = "el"]
    /\ hasOpts' = [hasOpts EXCEPT ![f] = withOpts]
    /\ initList' = [initList EXCEPT ![f] = Append(@, "el")]
    /\ Watchs' = Watchs \o << <<f, "data">> >>
                        \o (IF withOpts THEN << <<f, "opts">> >> ELSE <<>>)
    /\ watching' = watching \cup {<<f, "data">>}
                            \cup (IF withOpts THEN {<<f, "opts">>} ELSE {})
    /\ NoEngine
    /\ lastAct' = Act("createChartEl", 0)
    /\ UNCHANGED <<regs, aborted, tornDown, observed, resizeFn, attached, pending,
                   preQ, postQ, dirty, data, opts, nInst, instEl>>

\* setup(props) of a component made by createChartComp (lines 156-168).  The
\* component is rendered inside the scope's owner, so it is set up before the
\* owner unmounts.  watchPostEffect queues the effect's first run.
compSetup(f, withOpts) ==
    /\ ~tornDown
    /\ createChart(f)
    /\ form' = [form EXCEPT ![f] = "comp"]
    /\ hasOpts' = [hasOpts EXCEPT ![f] = withOpts]
    /\ initList' = [initList EXCEPT ![f] = Append(@, "comp")]
    /\ watching' = watching \cup {<<f, "effect">>}
    /\ postQ' = Append(postQ, <<f, "effect">>)
    /\ NoEngine
    /\ lastAct' = Act("compSetup", 0)
    /\ UNCHANGED <<regs, aborted, Watchs, tornDown, observed, resizeFn, attached,
                   pending, preQ, dirty, data, opts, nInst, instEl>>

\* The framework stops the effect of a component instance when it unmounts it.
compUnmount(f) ==
    /\ form[f] = "comp"
    /\ <<f, "effect">> \in watching
    /\ watching' = watching \ {<<f, "effect">>}
    /\ NoEngine
    /\ lastAct' = Act("compUnmount", 0)
    /\ UNCHANGED <<form, hasOpts, regs, initList, AbortSignals, aborted, Watchs, tornDown,
                   observed, resizeFn, attached, pending, preQ, postQ, dirty,
                   data, opts, nInst, instEl>>

\* Variant of initEl without the already-bound test.
initElNoCheck(f, e) ==
    IF e = 0
    THEN pending' = pending
    ELSE /\ nInst + Len(pending) < MaxInst
         /\ pending' = Append(pending, <<f, e>>)

\* initEl(el) (lines 102-104, 116): the synchronous part of the attach callback.
\* Every scheduled callback creates an instance, so scheduling is capped by MaxInst.
initEl(f, e) ==
    IF e = 0 \/ Somewhere(e, charts[f])
    THEN pending' = pending
    ELSE /\ nInst + Len(pending) < MaxInst
         /\ pending' = Append(pending, <<f, e>>)

\* The framework inserts element e of factory f's placeholder into the tree and
\* calls the ref callback with it.
Attach(f, e) ==
    /\ form[f] # "none"
    /\ owner(e) = f
    /\ ~attached[e]
    /\ attached' = [attached EXCEPT ![e] = TRUE]
    /\ initEl(f, e)
    /\ NoEngine
    /\ lastAct' = Act("attach", e)
    /\ UNCHANGED <<form, hasOpts, regs, initList, AbortSignals, aborted, Watchs, watching,
                   tornDown, observed, resizeFn, preQ, postQ, dirty, data, opts,
                   nInst, instEl>>

\* A re-render patches the placeholder and calls the ref callback again with the
\* element it already has.
Reattach(f, e) ==
    /\ owner(e) = f
    /\ attached[e]
    /\ initEl(f, e)
    /\ NoEngine
    /\ lastAct' = Act("reattach", e)
    /\ UNCHANGED <<form, hasOpts, regs, initList, AbortSignals, aborted, Watchs, watching,
                   tornDown, observed, resizeFn, attached, preQ, postQ, dirty,
                   data, opts, nInst, instEl>>

\* The element leaves its parent; the framework calls the ref callback with null.
Detach(e) ==
    /\ attached[e]
    /\ attached' = [attached EXCEPT ![e] = FALSE]
    /\ initEl(owner(e), 0)
    /\ NoEngine
    /\ lastAct' = Act("detach", e)
    /\ UNCHANGED <<form, hasOpts, regs, initList, AbortSignals, aborted, Watchs, watching,
                   tornDown, observed, resizeFn, preQ, postQ, dirty, data, opts,
                   nInst, instEl>>

\* The oldest nextTick callback runs (lines 104-115).
NextTick ==
    /\ pending # <<>>
    /\ nInst < MaxInst
    /\ LET f == Head(pending)[1]
           e == Head(pending)[2]
           i == nInst + 1
       IN  /\ Commit(deferredInit(World, f, e, i))
           /\ nInst' = i
           /\ instEl' = [instEl EXCEPT ![i] = e]
           /\ observed' = observed \cup {e}
           /\ resizeFn' = [resizeFn EXCEPT ![e] = i]
           /\ lastAct' = Act("nextTick", e)
    /\ pending' = Tail(pending)
    /\ UNCHANGED <<form, hasOpts, regs, initList, AbortSignals, aborted, Watchs, watching,
                   tornDown, attached, preQ, postQ, dirty, data, opts>>

\* The payload source changes: its active watchers and the effects that read it
\* are queued.
DataChange(d) ==
    /\ d # data
    /\ data' = d
    /\ preQ' = preQ \o Triggered(Watchs, preQ, {"data"})
    /\ postQ' = postQ \o Triggered(Effects(AbortSignals), postQ, {"effect"})
    /\ dirty' = Mark("data", preQ' \o postQ')
    /\ NoEngine
    /\ lastAct' = Act("data", 0)
    /\ UNCHANGED <<form, hasOpts, regs, initList, AbortSignals, aborted, Watchs, watching,
                   tornDown, observed, resizeFn, attached, pending, opts,
                   nInst, instEl>>

\* The options source changes.
OptsChange(o) ==
    /\ o # opts
    /\ opts' = o
    /\ preQ' = preQ \o Triggered(Watchs, preQ, {"opts"})
    /\ postQ' = postQ \o Triggered(SelectSeq(Effects(AbortSignals),
                                             LAMBDA h : hasOpts[h[1]]), postQ, {"effect"})
    /\ dirty' = Mark("opts", preQ' \o postQ')
    /\ NoEngine
    /\ lastAct' = Act("opts", 0)
    /\ UNCHANGED <<form, hasOpts, regs, initList, AbortSignals, aborted, Watchs, watching,
                   tornDown, observed, resizeFn, attached, pending, data,
                   nInst, instEl>>

\* One settling cycle of the framework: the queued watch() jobs run in queue order,
\* then the queued post-render effects.
Flush ==
    /\ preQ # <<>> \/ postQ # <<>>
    /\ Commit(runJobs(World, preQ \o postQ))
    /\ preQ' = <<>>
    /\ postQ' = <<>>
    /\ dirty' = <<>>
    /\ lastAct' = [Act("flush", 0) EXCEPT
                      !.jobs = SelectSeq(preQ \o postQ, LAMBDA j : j \in watching),
                      !.dirty = dirty,
                      !.before = charts]
    /\ UNCHANGED <<form, hasOpts, regs, initList, AbortSignals, aborted, Watchs, watching,
                   tornDown, observed, resizeFn, attached, pending, data, opts,
                   nInst, instEl>>

\* The ResizeObserver's callback for one entry (lines 46-51): entry.target.__resize().
Resize(e) ==
    /\ e \in observed
    /\ calls' = <<Call("resize", resizeFn[e], NoOption)>>
    /\ tfCalls' = <<>>
    /\ initLog' = <<>>
    /\ lastAct' = Act("resize", e)
    /\ UNCHANGED <<form, hasOpts, regs, charts, chartsRet, aliased, initList, AbortSignals,
                   aborted, Watchs, watching, tornDown, observed, resizeFn, attached,
                   pending, preQ, postQ, dirty, data, opts, nInst, instEl, applied>>

\* Variant of Teardown that leaves the watchers subscribed.
TeardownNoUnwatch ==
    /\ ~tornDown
    /\ \A f \in Factories : <<f, "effect">> \notin watching
    /\ aborted' = [f \in Factories |-> aborted[f] \/ InSeq(f, AbortSignals)]
    /\ observed' = {}
    /\ tornDown' = TRUE
    /\ NoEngine
    /\ lastAct' = Act("teardown", 0)
    /\ UNCHANGED <<form, hasOpts, regs, initList, AbortSignals, Watchs, watching, resizeFn,
                   attached, pending, preQ, postQ, dirty, data, opts, nInst, instEl>>

\* The onUnmounted callback (lines 55-63).  The framework unmounts the owner's
\* subtree, stopping the effects of the components in it, before it runs the hook.
Teardown ==
    /\ ~tornDown
    /\ \A f \in Factories : <<f, "effect">> \notin watching
    /\ aborted' = [f \in Factories |-> aborted[f] \/ InSeq(f, AbortSignals)]
    /\ watching' = {h \in watching : ~InSeq(h, Watchs)}
    /\ observed' = {}
    /\ tornDown' = TRUE
    /\ NoEngine
    /\ lastAct' = Act("teardown", 0)
    /\ UNCHANGED <<form, hasOpts, regs, initList, AbortSignals, Watchs, resizeFn, attached,
                   pending, preQ, postQ, dirty, data, opts, nInst, instEl>>

Next ==
    \/ \E f \in Factories, b \in BOOLEAN : createChartEl(f, b)
    \/ \E f \in Factories, b \in BOOLEAN : compSetup(f, b)
    \/ \E f \in Factories : compUnmount(f)
    \/ \E f \in Factories, e \in Elems : Attach(f, e)
    \/ \E f \in Factories, e \in Elems : Reattach(f, e)
    \/ \E e \in Elems : Detach(e)
    \/ NextTick
    \/ \E d \in DataVals : DataChange(d)
    \/ \E o \in OptVals : OptsChange(o)
    \/ Flush
    \/ \E e \in Elems : Resize(e)
    \/ Teardown

Spec == Init /\ [][Next]_vars

\* onInit(fn) called by a user of createChart (lines 96-97): fn is pushed and its
\* unregister function returned.  Each function is registered once.
onInit(f, fn) ==
    /\ form[f] # "none"
    /\ regs[f][fn] = "none"
    /\ initList' = [initList EXCEPT ![f] = Append(@, fn)]
    /\ regs' = [regs EXCEPT ![f][fn] = "on"]
    /\ NoEngine
    /\ lastAct' = Act("onInit", 0)
    /\ UNCHANGED <<form, hasOpts, AbortSignals, aborted, Watchs, watching, tornDown,
                   observed, resizeFn, attached, pending, preQ, postQ, dirty, data,
                   opts, nInst, instEl>>

\* list.splice(list.indexOf(fn), 1): indexOf gives -1 when fn is absent, and a
\* start of -1 makes splice remove the last element.
spliceIndexOf(lst, fn) ==
    IF InSeq(fn, lst)
    THEN LET k == CHOOSE n \in 1..Len(lst) :
                      lst[n] = fn /\ \A m \in 1..(n - 1) : lst[m] # fn
         IN  SubSeq(lst, 1, k - 1) \o SubSeq(lst, k + 1, Len(lst))
    ELSE SubSeq(lst, 1, Len(lst) - 1)

\* The unregister function onInit(fn) returned is called (lines 98-100).
unregister(f, fn) ==
    /\ regs[f][fn] # "none"
    /\ initList' = [initList EXCEPT ![f] = spliceIndexOf(@, fn)]
    /\ regs' = [regs EXCEPT ![f][fn] = "off"]
    /\ NoEngine
    /\ lastAct' = Act("unregister", 0)
    /\ UNCHANGED <<form, hasOpts, AbortSignals, aborted, Watchs, watching, tornDown,
                   observed, resizeFn, attached, pending, preQ, postQ, dirty, data,
                   opts, nInst, instEl>>

\* createChart used as a unit: its onInit and the returned unregister functions
\* are called freely, elements attach and detach, and creation steps run.
NextOnInit ==
    \/ \E f \in Factories, b \in BOOLEAN : createChartEl(f, b)
    \/ \E f \in Factories, fn \in ExtraFns : onInit(f, fn)
    \/ \E f \in Factories, fn \in ExtraFns : unregister(f, fn)
    \/ \E f \in Factories, e \in Elems : Attach(f, e)
    \/ \E e \in Elems : Detach(e)
    \/ NextTick

SpecOnInit == Init /\ [][NextOnInit]_vars

\* The same system while no element leaves the tree.
NextNoDetach ==
    \/ \E f \in Factories, b \in BOOLEAN : createChartEl(f, b)
    \/ \E f \in Factories, b \in BOOLEAN : compSetup(f, b)
    \/ \E f \in Factories : compUnmount(f)
    \/ \E f \in Factories, e \in Elems : Attach(f, e)
    \/ \E f \in Factories, e \in Elems : Reattach(f, e)
    \/ NextTick
    \/ \E d \in DataVals : DataChange(d)
    \/ \E o \in OptVals : OptsChange(o)
    \/ Flush
    \/ \E e \in Elems : Resize(e)
    \/ Teardown

SpecNoDetach == Init /\ [][NextNoDetach]_vars

----------------------------------------------------------------------------
\* Observations used by the properties.

\* The bindings of list lst whose element is e.
BindingsOf(lst, e) == {k \in 1..Len(lst) : lst[k].el = e}
\* The engine instances created on element e so far (one per init(e) call).
InitsOf(e) == {i \in Insts : instEl[i] = e}
PendingFor(e) == \E k \in 1..Len(pending) : pending[k][2] = e
Live(f) == {charts[f][k].chart : k \in 1..Len(charts[f])}
\* The step just taken delivered a notification: a resize entry, or watcher jobs.
Notified == lastAct.kind \in {"resize", "flush"}

\* C1: after scope teardown, no resize notification, payload-change notification or
\* options-change notification causes any call into the rendering engine.
C1_NoEngineCallAfterTeardown ==
    (tornDown /\ Notified) => calls = <<>>

\* C2: calling the attach callback twice with the same element yields exactly one
\* binding and exactly one instance-creation call, whether the second call comes
\* before or after the deferred creation step of the first (no element detaches).
C2_AttachTwiceOneBinding ==
    \A e \in Elems :
        (attached[e] /\ ~PendingFor(e)) =>
            /\ Cardinality(BindingsOf(charts[owner(e)], e)) = 1
            /\ Cardinality(InitsOf(e)) = 1

\* C3: the binding list of a factory never holds two bindings with the same element.
C3_UniqueElement ==
    \A f \in Factories : \A j, k \in 1..Len(charts[f]) :
        j # k => charts[f][j].el # charts[f][k].el

\* C4: the number of bindings in a factory's list never exceeds the number of
\* elements currently attached to the tree.
C4_BindingsAtMostAttached ==
    \A f \in Factories :
        Len(charts[f]) <= Cardinality({e \in Elems : attached[e]})

\* C5: over the whole run init(el) is called at most once for each element.
C5_AtMostOneInitPerElement ==
    \A e \in Elems : Cardinality(InitsOf(e)) <= 1

\* Factory f had both its payload and its options change in the settling cycle
\* that just ran: both watchers ran (element form), or the effect ran after both
\* sources changed (component form).
BothChanged(f) ==
    /\ lastAct.kind = "flush"
    /\ hasOpts[f]
    /\ \/ InSeq(<<f, "data">>, lastAct.jobs) /\ InSeq(<<f, "opts">>, lastAct.jobs)
       \/ /\ InSeq(<<f, "effect">>, lastAct.jobs)
          /\ InSeq("data", lastAct.dirty)
          /\ InSeq("opts", lastAct.dirty)

\* C6: after a settling cycle in which both the payload and the options changed, in
\* either order, the options last applied to every live instance are the directly
\* supplied options, in the element form and in the component form.
C6_DirectOptionsWin ==
    \A f \in Factories :
        BothChanged(f) => \A i \in Live(f) : applied[i] = Direct(opts)

\* C7: whenever the transform is invoked, its second argument is the factory's
\* current binding list.
C7_TransformSeesBindings ==
    \A k \in 1..Len(tfCalls) : tfCalls[k].arg = tfCalls[k].internal

\* The setOption(o) invocations of factory f that the jobs js make, in order, as
\* the options o they pass.
RECURSIVE SetOptionArgs(_, _)
SetOptionArgs(js, f) ==
    IF js = <<>> THEN <<>>
    ELSE LET j == Head(js)
             here == IF j[1] # f THEN <<>>
                     ELSE IF j[2] = "data" THEN <<Transform(data, chartsRet[f])>>
                     ELSE IF j[2] = "opts" THEN <<Direct(opts)>>
                     ELSE <<Transform(data, chartsRet[f])>>
                          \o (IF hasOpts[f] THEN <<Direct(opts)>> ELSE <<>>)
         IN  here \o SetOptionArgs(Tail(js), f)

\* The engine calls of the last step that went to instances created for factory f.
CallsOf(f) == SelectSeq(calls, LAMBDA c : owner(instEl[c.inst]) = f)
\* How many of the calls cs are setOption(o) on instance i.
Count(cs, i, o) == Cardinality({k \in 1..Len(cs) : cs[k] = Call("setOption", i, o)})
DetachedBefore(f) ==
    {lastAct.before[f][k].chart : k \in {n \in 1..Len(lastAct.before[f]) :
                                            ~attached[lastAct.before[f][n].el]}}

\* C8: one call setOption(o) makes exactly one engine setOption call with argument
\* o on the instance of every binding whose element is attached, makes no call on
\* the instance of a binding whose element is detached, and leaves the binding list
\* holding exactly the bindings of attached elements.
C8_SetOptionReachesLiveOnly ==
    \A f \in Factories :
        (lastAct.kind = "flush" /\ SetOptionArgs(lastAct.jobs, f) # <<>>) =>
            LET os == SetOptionArgs(lastAct.jobs, f)
                kept == SelectSeq(lastAct.before[f], LAMBDA b : attached[b.el])
            IN  /\ charts[f] = kept
                /\ Len(CallsOf(f)) = Len(os) * Len(kept)
                /\ \A k \in 1..Len(kept) : \A n \in 1..Len(os) :
                       Count(CallsOf(f), kept[k].chart, os[n]) = 1
                /\ \A i \in DetachedBefore(f) : \A n \in 1..Len(CallsOf(f)) :
                       CallsOf(f)[n].inst # i

\* A setOption call found two bindings, purged the one whose element had left the
\* tree and reached the other.
C8_Witness ==
    /\ lastAct.kind = "flush"
    /\ \E f \in Factories :
        /\ Len(lastAct.jobs) = 1
        /\ lastAct.jobs[1] = <<f, "opts">>
        /\ Len(lastAct.before[f]) = 2
        /\ Len(charts[f]) = 1
        /\ calls = <<Call("setOption", charts[f][1].chart, Direct(opts))>>

\* The calls of the last step that applied directly supplied options.
DirectCalls(f) == SelectSeq(CallsOf(f), LAMBDA c : c.arg.kind = "opt")
\* The options source changed in the cycle that just ran and factory f reacted to it.
OptsCycle(f) ==
    /\ lastAct.kind = "flush"
    /\ InSeq("opts", lastAct.dirty)
    /\ hasOpts[f]
    /\ InSeq(<<f, "opts">>, lastAct.jobs) \/ InSeq(<<f, "effect">>, lastAct.jobs)

\* C9: when several elements are bound under one factory, one options-source change
\* applies the same options value to all their instances within that cycle, and the
\* engine calls occur in the order of the binding list, which is creation order.
C9_SameOptionsInListOrder ==
    \A f \in Factories :
        OptsCycle(f) =>
            /\ Len(DirectCalls(f)) = Len(charts[f])
            /\ \A k \in 1..Len(charts[f]) :
                   DirectCalls(f)[k] = Call("setOption", charts[f][k].chart, Direct(opts))
            /\ \A j, k \in 1..Len(charts[f]) :
                   j < k => charts[f][j].chart < charts[f][k].chart

\* One options change reached two instances bound to two different elements.
C9_Witness ==
    \E f \in Factories :
        /\ OptsCycle(f)
        /\ lastAct.jobs = << <<f, "opts">> >>
        /\ Len(charts[f]) = 2
        /\ charts[f][1].el # charts[f][2].el
        /\ Len(calls) = 2

\* C10: right after the teardown callback has run, every AbortController pushed by
\* createChart is aborted, every watcher pushed by createChartEl is unsubscribed, and
\* the resize observer observes nothing.
C10_TeardownTotal ==
    lastAct.kind = "teardown" =>
        /\ \A k \in 1..Len(AbortSignals) : aborted[AbortSignals[k]]
        /\ \A k \in 1..Len(Watchs) : Watchs[k] \notin watching
        /\ observed = {}

\* Teardown ran over a controller, two watchers and an observed element.
C10_Witness ==
    /\ lastAct.kind = "teardown"
    /\ Len(AbortSignals) >= 1
    /\ Len(Watchs) = 2
    /\ nInst >= 1

\* The calls of the last step that are resize calls.
ResizeCalls == SelectSeq(calls, LAMBDA c : c.op = "resize")

\* C11: before teardown, a size-change notification for an element triggers the
\* resize of every instance bound to that element in the binding list, and of no
\* instance created on a different element.
C11_ResizeReachesEveryBinding ==
    (lastAct.kind = "resize" /\ ~tornDown) =>
        LET e == lastAct.e
            lst == charts[owner(e)]
        IN  /\ \A k \in BindingsOf(lst, e) :
                   InSeq(Call("resize", lst[k].chart, NoOption), calls)
            /\ \A n \in 1..Len(calls) : instEl[calls[n].inst] = e

\* The engine setOption calls a world's handler made.
SetOptionCalls(w) == SelectSeq(w.calls, LAMBDA c : c.op = "setOption")

\* C12: for the same template and the same events, the component form and the
\* element form make the same engine setOption calls: from any state, a payload
\* change makes the element form's payload watcher and the component form's effect
\* issue the same calls, and so does an options change with its watcher.
C12_FormsMakeSameCalls ==
    \A f \in Factories :
        form[f] # "none" =>
            /\ SetOptionCalls(dataWatcher(World, f)) = SetOptionCalls(postEffect(World, f))
            /\ hasOpts[f] =>
                   SetOptionCalls(optsWatcher(World, f)) = SetOptionCalls(postEffect(World, f))

\* The options a new binding of factory f receives first, in order.
FirstOptions(f) ==
    <<Baseline, Transform(data, chartsRet[f])>>
        \o (IF hasOpts[f] THEN <<Direct(opts)>> ELSE <<>>)

C14_CreatedOnAttachedElement ==
    /\ lastAct.kind \in {"attach", "reattach"} => calls = <<>>
    /\ lastAct.kind = "nextTick" => attached[lastAct.e]

\* C15: a size-change notification for an element whose binding is no longer in
\* the binding list makes no resize call on the instance that was bound to it.
C15_LateResizeIsNoOp ==
    lastAct.kind = "resize" =>
        \A n \in 1..Len(calls) : calls[n].inst \in Live(owner(lastAct.e))

\* C16: after teardown the scope holds no un-aborted AbortController and no
\* still-subscribed watcher, whatever is called afterwards.
C16_NothingRegisteredAfterTeardown ==
    tornDown =>
        /\ \A k \in 1..Len(AbortSignals) : aborted[AbortSignals[k]]
        /\ \A k \in 1..Len(Watchs) : Watchs[k] \notin watching

\* The step is an attach callback with null, or with an element that a binding of
\* its factory already references.
InvalidAttach ==
    \/ lastAct'.kind = "detach"
    \/ /\ lastAct'.kind \in {"attach", "reattach"}
       /\ Somewhere(lastAct'.e, charts[owner(lastAct'.e)])

\* C18: an attach callback with null or with an already-bound element schedules no
\* deferred step, creates no instance, makes no engine call and leaves the binding
\* list, the init-callback list and the observed elements unchanged.
C18_InvalidAttachIsNoOp ==
    [][InvalidAttach =>
          /\ pending' = pending
          /\ nInst' = nInst
          /\ calls' = <<>>
          /\ charts' = charts
          /\ initList' = initList
          /\ observed' = observed]_vars

\* The attach callback was called again with an element that is bound, and nothing
\* is scheduled.
C18_Witness ==
    /\ lastAct.kind = "reattach"
    /\ Somewhere(lastAct.e, charts[owner(lastAct.e)])
    /\ pending = <<>>
    /\ nInst = 1

\* The init callbacks of factory f that are registered and not unregistered: the
\* binder's, and every function whose unregister function was not called.
Registered(f) ==
    (IF form[f] = "none" THEN {} ELSE {form[f]}) \cup {fn \in ExtraFns : regs[f][fn] = "on"}
\* The invocations of callback fn in the last step.
Invocations(fn) == {k \in 1..Len(initLog) : initLog[k].fn = fn}

\* C17: when a binding is created, every init callback that is registered and not
\* unregistered is invoked exactly once, with the binding's instance and element
\* and after the baseline was applied; an unregistered callback is not invoked.
C17_RegisteredCallbacksInvokedOnce ==
    lastAct.kind = "nextTick" =>
        LET f == owner(lastAct.e)
        IN  /\ \A fn \in Registered(f) :
                   /\ Cardinality(Invocations(fn)) = 1
                   /\ \A k \in Invocations(fn) :
                          /\ initLog[k].inst = nInst
                          /\ initLog[k].el = lastAct.e
                          /\ initLog[k].prior # NoOption
            /\ \A fn \in ExtraFns :
                   regs[f][fn] = "off" => Invocations(fn) = {}

\* C19: calling an unregister function, also a second time or when its callback is
\* no longer in the list, leaves every other registered callback in the list.
C19_UnregisterRemovesOnlyItsCallback ==
    \A f \in Factories : \A fn \in Registered(f) : InSeq(fn, initList[f])

====
